---- MODULE Spec2Model ----
(***************************************************************************)
(* A model of the Sherlock Domains client (src/sherlock.ts): the Sherlock  *)
(* class, its response handling, the contact completeness check, the       *)
(* composite purchase flow and the agent tool adapter.                     *)
(*                                                                         *)
(* JavaScript values are tagged records [t |-> type, v |-> payload].  A    *)
(* string is a sequence of tokens (a token stands for one or more          *)
(* characters), so that trimming, joining and template strings are         *)
(* computed and not assumed.                                               *)
(***************************************************************************)
EXTENDS Integers, Sequences, FiniteSets, TLC

\* ------------------------------------------------------------------------
\* JavaScript values
\* ------------------------------------------------------------------------
Undefined == [t |-> "undefined"]
Null == [t |-> "null"]
Str(s) == [t |-> "string", v |-> s]
Num(n) == [t |-> "number", v |-> n]
Bool(b) == [t |-> "boolean", v |-> b]
Arr(s) == [t |-> "array", v |-> s]
Obj(f) == [t |-> "object", v |-> f]
EmptyObj == Obj([k \in {} |-> Null])

\* ToBoolean: undefined, null, "", 0 and false are falsy, the rest truthy.
Truthy(x) ==
    CASE x.t = "undefined" -> FALSE
      [] x.t = "null" -> FALSE
      [] x.t = "string" -> x.v # <<>>
      [] x.t = "number" -> x.v # 0
      [] x.t = "boolean" -> x.v
      [] OTHER -> TRUE

\* x[k] on a value that is neither undefined nor null: a missing property reads
\* as undefined, and so does any property of a primitive.
Get(x, k) ==
    IF x.t = "object" /\ k \in DOMAIN x.v THEN x.v[k] ELSE Undefined

\* { ...x }: the own enumerable properties of an object; nothing for null,
\* undefined, numbers and booleans.
Spread(x) ==
    IF x.t = "object" THEN x.v ELSE [k \in {} |-> Null]

\* { ...a, ...b } on property maps: later properties win.
Merge(a, b) ==
    [k \in (DOMAIN a) \cup (DOMAIN b) |-> IF k \in DOMAIN b THEN b[k] ELSE a[k]]

\* The completion of a call: nothing yet, a returned value, a thrown value.
Pending == [k |-> "none"]
Return(v) == [k |-> "return", v |-> v]
Throw(v) == [k |-> "throw", v |-> v]

TypeError == [t |-> "TypeError"]
SyntaxError == [t |-> "SyntaxError"]
NetworkError == [t |-> "NetworkError"]

\* ------------------------------------------------------------------------
\* Strings
\* ------------------------------------------------------------------------
WhiteSpace == {" ", "\t", "\n"}

RECURSIVE TrimStart(_)
TrimStart(s) ==
    IF s # <<>> /\ Head(s) \in WhiteSpace THEN TrimStart(Tail(s)) ELSE s

RECURSIVE TrimEnd(_)
TrimEnd(s) ==
    IF s # <<>> /\ s[Len(s)] \in WhiteSpace
    THEN TrimEnd(SubSeq(s, 1, Len(s) - 1))
    ELSE s

\* String.prototype.trim
Trim(s) == TrimEnd(TrimStart(s))

\* Array.prototype.join on an array of one-token strings.
RECURSIVE Join(_, _)
Join(names, sep) ==
    IF names = <<>> THEN <<>>
    ELSE IF Len(names) = 1 THEN <<names[1]>>
    ELSE <<names[1], sep>> \o Join(Tail(names), sep)

\* ------------------------------------------------------------------------
\* requireCompleteContact
\* ------------------------------------------------------------------------
requiredFields ==
    <<"first_name", "last_name", "email", "address", "city", "state",
      "postal_code", "country">>

\* The check without the trim: a whitespace-only value counts as present.
FieldMissing_NoTrim(contact, field) == ~Truthy(Get(contact, field))

\* !contact[field] || contact[field].trim() === ''
FieldMissing(contact, field) ==
    LET x == Get(contact, field) IN
    \/ ~Truthy(x)
    \/ x.t = "string" /\ Trim(x.v) = <<>>

\* A truthy value that is not a string has no trim method.
FieldNotString(contact, field) ==
    LET x == Get(contact, field) IN Truthy(x) /\ x.t # "string"

\* fields.filter(field => ...): the missing fields, in the order of fields.
RECURSIVE FilterMissing(_, _)
FilterMissing(contact, fields) ==
    IF fields = <<>> THEN <<>>
    ELSE IF FieldMissing(contact, Head(fields))
    THEN <<Head(fields)>> \o FilterMissing(contact, Tail(fields))
    ELSE FilterMissing(contact, Tail(fields))

missingFields(contact) == FilterMissing(contact, requiredFields)

IncompleteMessage(missing) ==
    <<"Incomplete contact information: ">> \o Join(missing, ", ")
        \o <<" ", IF Len(missing) = 1 THEN "is" ELSE "are",
             " required and cannot be empty">>

ToStrArr(names) == Arr([i \in 1..Len(names) |-> Str(<<names[i]>>)])

\* Returns normally (with undefined) or throws.
requireCompleteContact(contact) ==
    IF ~Truthy(contact)
    THEN Throw(Obj([error |-> Str(<<"Contact information is required">>)]))
    ELSE IF \E i \in 1..Len(requiredFields) :
                FieldNotString(contact, requiredFields[i])
    THEN Throw(TypeError)
    ELSE LET missing == missingFields(contact) IN
         IF Len(missing) > 0
         THEN Throw(Obj([error |-> Str(IncompleteMessage(missing)),
                         missingFields |-> ToStrArr(missing)]))
         ELSE Return(Undefined)

\* ------------------------------------------------------------------------
\* Responses and handleResponse
\* ------------------------------------------------------------------------
\* A body that is not JSON: response.json() rejects.
NotJson == [t |-> "notjson"]

Response(status, body) == [status |-> status, body |-> body]

\* Response.ok: the status is in the range 200-299.
Ok(r) == r.status >= 200 /\ r.status <= 299

\* { status: response.status, ...data }
StatusError(r, data) == Obj(Merge([status |-> Num(r.status)], Spread(data)))

\* handleResponse without the check of the error field of the body.
handleResponse_NoErrorCheck(r) ==
    IF r.body = NotJson THEN Throw(SyntaxError)
    ELSE IF ~Ok(r) THEN Throw(StatusError(r, r.body))
    ELSE Return(r.body)

\* handleResponse without the check of the HTTP status.
handleResponse_IgnoreStatus(r) ==
    IF r.body = NotJson THEN Throw(SyntaxError)
    ELSE IF Truthy(r.body) /\ Truthy(Get(r.body, "error"))
    THEN Throw(StatusError(r, r.body))
    ELSE Return(r.body)

handleResponse(r) ==
    IF r.body = NotJson THEN Throw(SyntaxError)
    ELSE LET data == r.body IN
         IF ~Ok(r) THEN Throw(StatusError(r, data))
         ELSE IF Truthy(data) /\ Truthy(Get(data, "error"))
         THEN Throw(StatusError(r, data))
         ELSE Return(data)

\* ------------------------------------------------------------------------
\* Requests
\* ------------------------------------------------------------------------
API_URL == "https://api.sherlockdomains.com"

S(token) == Str(<<token>>)

\* JSON.stringify of a value: properties whose value is undefined are left out.
RECURSIVE Stringify(_)
Stringify(x) ==
    IF x.t = "object"
    THEN Obj([k \in {j \in DOMAIN x.v : x.v[j].t # "undefined"} |-> Stringify(x.v[k])])
    ELSE IF x.t = "array"
    THEN Arr([i \in 1..Len(x.v) |->
                 IF x.v[i].t = "undefined" THEN Null ELSE Stringify(x.v[i])])
    ELSE x

NoHeaders == [h \in {} |-> <<>>]
Bearer(accessToken) == [Authorization |-> <<"Bearer ">> \o accessToken.v]
JsonType == [h \in {"Content-Type"} |-> <<"application/json">>]

Request(method, url, headers, body) ==
    [method |-> method, url |-> url, headers |-> headers, body |-> body]

\* What the synchronous part of a method does: the checks it ran, and either a
\* thrown value or the request it issued with fetch.
Fetch(req) == [k |-> "fetch", req |-> req]
Step(ev, r) == [ev |-> ev, r |-> r]

NotAuthenticated == S("Not authenticated")

\* x = d in a parameter list or a destructuring pattern.
Default(x, d) == IF x.t = "undefined" THEN d ELSE x

\* ------------------------------------------------------------------------
\* The methods of Sherlock, up to their first await
\* ------------------------------------------------------------------------
me(accessToken) ==
    IF ~Truthy(accessToken) THEN Step(<<>>, Throw(NotAuthenticated))
    ELSE Step(<<"request">>,
              Fetch(Request("GET", <<API_URL, "/api/v0/auth/me">>,
                            Bearer(accessToken), Undefined)))

claimAccount(accessToken, email) ==
    IF ~Truthy(accessToken) THEN Step(<<>>, Throw(NotAuthenticated))
    ELSE Step(<<"request">>,
              Fetch(Request("POST", <<API_URL, "/api/v0/auth/email-link">>,
                            Merge(Bearer(accessToken), JsonType),
                            Stringify(Obj([email |-> email])))))

\* No credential is read and no Authorization header is sent.
search(query) ==
    Step(<<"request">>,
         Fetch(Request("GET",
                       <<API_URL, "/api/v0/domains/search?", "query=">> \o query.v,
                       NoHeaders, Undefined)))

domains(accessToken) ==
    IF ~Truthy(accessToken) THEN Step(<<>>, Throw(NotAuthenticated))
    ELSE Step(<<"request">>,
              Fetch(Request("GET", <<API_URL, "/api/v0/domains/domains">>,
                            Bearer(accessToken), Undefined)))

updateNameservers(accessToken, domainId, nameservers) ==
    IF ~Truthy(accessToken) THEN Step(<<>>, Throw(NotAuthenticated))
    ELSE Step(<<"request">>,
              Fetch(Request("PATCH",
                            <<API_URL, "/api/v0/domains/">> \o domainId.v
                                \o <<"/nameservers">>,
                            Merge(Bearer(accessToken), JsonType),
                            Stringify(Obj([nameservers |-> nameservers])))))

dnsRecords(accessToken, domainId) ==
    IF ~Truthy(accessToken) THEN Step(<<>>, Throw(NotAuthenticated))
    ELSE Step(<<"request">>,
              Fetch(Request("GET",
                            <<API_URL, "/api/v0/domains/">> \o domainId.v
                                \o <<"/dns/records">>,
                            Bearer(accessToken), Undefined)))

createDns(accessToken, domainId, record) ==
    LET type == Default(Get(record, "type"), S("TXT"))
        name == Default(Get(record, "name"), S("test"))
        value == Default(Get(record, "value"), S("test-1"))
        ttl == Default(Get(record, "ttl"), Num(3600))
    IN
    IF ~Truthy(accessToken) THEN Step(<<>>, Throw(NotAuthenticated))
    ELSE Step(<<"request">>,
              Fetch(Request("POST",
                            <<API_URL, "/api/v0/domains/">> \o domainId.v
                                \o <<"/dns/records">>,
                            Merge(Bearer(accessToken), JsonType),
                            Stringify(Obj([records |->
                                Arr(<<Obj([type |-> type, name |-> name,
                                           value |-> value, ttl |-> ttl])>>)])))))

\* updateDns with the defaults of createDns for name and value.
updateDns_CreateDefaults(accessToken, domainId, recordId, record) ==
    LET type == Default(Get(record, "type"), S("TXT"))
        name == Default(Get(record, "name"), S("test"))
        value == Default(Get(record, "value"), S("test-1"))
        ttl == Default(Get(record, "ttl"), Num(3600))
    IN
    IF ~Truthy(accessToken) THEN Step(<<>>, Throw(NotAuthenticated))
    ELSE Step(<<"request">>,
              Fetch(Request("PATCH",
                            <<API_URL, "/api/v0/domains/">> \o domainId.v
                                \o <<"/dns/records">>,
                            Merge(Bearer(accessToken), JsonType),
                            Stringify(Obj([records |->
                                Arr(<<Obj([id |-> recordId, type |-> type,
                                           name |-> name, value |-> value,
                                           ttl |-> ttl])>>)])))))

updateDns(accessToken, domainId, recordId, record) ==
    LET type == Default(Get(record, "type"), S("TXT"))
        name == Default(Get(record, "name"), S("test-2"))
        value == Default(Get(record, "value"), S("test-2"))
        ttl == Default(Get(record, "ttl"), Num(3600))
    IN
    IF ~Truthy(accessToken) THEN Step(<<>>, Throw(NotAuthenticated))
    ELSE Step(<<"request">>,
              Fetch(Request("PATCH",
                            <<API_URL, "/api/v0/domains/">> \o domainId.v
                                \o <<"/dns/records">>,
                            Merge(Bearer(accessToken), JsonType),
                            Stringify(Obj([records |->
                                Arr(<<Obj([id |-> recordId, type |-> type,
                                           name |-> name, value |-> value,
                                           ttl |-> ttl])>>)])))))

deleteDns(accessToken, domainId, recordId) ==
    IF ~Truthy(accessToken) THEN Step(<<>>, Throw(NotAuthenticated))
    ELSE Step(<<"request">>,
              Fetch(Request("DELETE",
                            <<API_URL, "/api/v0/domains/">> \o domainId.v
                                \o <<"/dns/records/">> \o recordId.v,
                            Bearer(accessToken), Undefined)))

getContactInformation(accessToken) ==
    IF ~Truthy(accessToken) THEN Step(<<>>, Throw(NotAuthenticated))
    ELSE Step(<<"request">>,
              Fetch(Request("GET", <<API_URL, "/api/v0/users/contact-information">>,
                            Bearer(accessToken), Undefined)))

setContactInformation(accessToken, contactArg) ==
    IF ~Truthy(accessToken) THEN Step(<<>>, Throw(NotAuthenticated))
    ELSE Step(<<"request">>,
              Fetch(Request("POST", <<API_URL, "/api/v0/users/contact-information">>,
                            Merge(Bearer(accessToken), JsonType),
                            Stringify(contactArg))))

\* The body of the three offer and purchase requests.
PurchaseBody(domain, contactInfo, searchId) ==
    Stringify(Obj([domain |-> domain, contact_information |-> contactInfo,
                   search_id |-> searchId]))

\* this.contact || contact: the cached contact taking precedence.
EffectiveContact_CachedFirst(contactArg, cached) ==
    IF Truthy(cached) THEN cached ELSE contactArg

\* contact || this.contact
EffectiveContact(contactArg, cached) ==
    IF Truthy(contactArg) THEN contactArg ELSE cached

\* getPurchaseOffers with the completeness check moved before the credential check.
getPurchaseOffers_ValidateFirst(accessToken, cached, domain, searchId, contactArg) ==
    LET contactInfo == EffectiveContact(contactArg, cached)
        rc == requireCompleteContact(contactInfo)
    IN
    IF rc.k = "throw" THEN Step(<<"validate">>, rc)
    ELSE IF ~Truthy(accessToken) THEN Step(<<"validate">>, Throw(NotAuthenticated))
    ELSE Step(<<"validate", "request">>,
              Fetch(Request("POST", <<API_URL, "/api/v0/domains/purchase">>,
                            Merge(Bearer(accessToken), JsonType),
                            PurchaseBody(domain, contactInfo, searchId))))

\* getPurchaseOffers checking the effective contact and sending this.contact.
getPurchaseOffers_SendCached(accessToken, cached, domain, searchId, contactArg) ==
    IF ~Truthy(accessToken) THEN Step(<<>>, Throw(NotAuthenticated))
    ELSE LET contactInfo == EffectiveContact(contactArg, cached)
             rc == requireCompleteContact(contactInfo)
         IN
         IF rc.k = "throw" THEN Step(<<"validate">>, rc)
         ELSE Step(<<"validate", "request">>,
                   Fetch(Request("POST", <<API_URL, "/api/v0/domains/purchase">>,
                                 Merge(Bearer(accessToken), JsonType),
                                 PurchaseBody(domain, cached, searchId))))

getPurchaseOffers(accessToken, cached, domain, searchId, contactArg) ==
    IF ~Truthy(accessToken) THEN Step(<<>>, Throw(NotAuthenticated))
    ELSE LET contactInfo == EffectiveContact(contactArg, cached)
             rc == requireCompleteContact(contactInfo)
         IN
         IF rc.k = "throw" THEN Step(<<"validate">>, rc)
         ELSE Step(<<"validate", "request">>,
                   Fetch(Request("POST", <<API_URL, "/api/v0/domains/purchase">>,
                                 Merge(Bearer(accessToken), JsonType),
                                 PurchaseBody(domain, contactInfo, searchId))))

getX402PurchaseOffers(accessToken, cached, domain, searchId, contactArg) ==
    IF ~Truthy(accessToken) THEN Step(<<>>, Throw(NotAuthenticated))
    ELSE LET contactInfo == EffectiveContact(contactArg, cached)
             rc == requireCompleteContact(contactInfo)
         IN
         IF rc.k = "throw" THEN Step(<<"validate">>, rc)
         ELSE Step(<<"validate", "request">>,
                   Fetch(Request("POST", <<API_URL, "/api/v0/domains/purchase-x402">>,
                                 Merge(Bearer(accessToken), JsonType),
                                 PurchaseBody(domain, contactInfo, searchId))))

\* purchaseX402 sending its request before it checks the contact.
purchaseX402_FetchFirst(accessToken, cached, domain, searchId, paymentSignature, contactArg) ==
    IF ~Truthy(accessToken) THEN Step(<<>>, Throw(NotAuthenticated))
    ELSE LET contactInfo == EffectiveContact(contactArg, cached) IN
         Step(<<"request", "validate">>,
              Fetch(Request("POST", <<API_URL, "/api/v0/domains/purchase-x402">>,
                            Merge(Merge(Bearer(accessToken), JsonType),
                                  [h \in {"PAYMENT-SIGNATURE"} |->
                                      paymentSignature.v]),
                            PurchaseBody(domain, contactInfo, searchId))))

purchaseX402(accessToken, cached, domain, searchId, paymentSignature, contactArg) ==
    IF ~Truthy(accessToken) THEN Step(<<>>, Throw(NotAuthenticated))
    ELSE LET contactInfo == EffectiveContact(contactArg, cached)
             rc == requireCompleteContact(contactInfo)
         IN
         IF rc.k = "throw" THEN Step(<<"validate">>, rc)
         ELSE Step(<<"validate", "request">>,
                   Fetch(Request("POST", <<API_URL, "/api/v0/domains/purchase-x402">>,
                                 Merge(Merge(Bearer(accessToken), JsonType),
                                       [h \in {"PAYMENT-SIGNATURE"} |->
                                           paymentSignature.v]),
                                 PurchaseBody(domain, contactInfo, searchId))))

\* No credential check: the request goes to the caller's URL without an
\* Authorization header.  fetch rejects a URL that is not a string.
getPaymentDetails(paymentRequestUrl, offerId, paymentMethod, paymentContextToken) ==
    IF paymentRequestUrl.t # "string" THEN Step(<<>>, Throw(TypeError))
    ELSE Step(<<"request">>,
              Fetch(Request("POST", paymentRequestUrl.v, JsonType,
                            Stringify(Obj([offer_id |-> offerId,
                                           payment_method |-> paymentMethod,
                                           payment_context_token |->
                                               paymentContextToken])))))

\* purchaseDomain up to its first await: the credential check, then the call of
\* getContactInformation.
purchaseDomain(accessToken) ==
    IF ~Truthy(accessToken) THEN Step(<<>>, Throw(NotAuthenticated))
    ELSE getContactInformation(accessToken)

\* ------------------------------------------------------------------------
\* State
\* ------------------------------------------------------------------------
VARIABLES
    this_accessToken,   \* Sherlock.accessToken
    this_contact,       \* Sherlock.contact, the cached contact
    calls,              \* per caller: the call in flight, or the last one made
    rcArg,              \* the argument of a direct requireCompleteContact call
    rcOut               \* and its completion

vars == <<this_accessToken, this_contact, calls, rcArg, rcOut>>

Callers == {"c1"}

NoArgs == [k \in {} |-> Undefined]

IdleCall ==
    [op |-> "none", via |-> "none", args |-> NoArgs, pc |-> "idle",
     events |-> <<>>, reqs |-> <<>>, resps |-> <<>>,
     contact |-> Undefined, offers |-> Undefined, out |-> Pending]

\* ------------------------------------------------------------------------
\* Inputs
\* ------------------------------------------------------------------------
\* The most offers an offer response lists.
MaxOffers == 2

Tokens == {Undefined, Str(<<>>), S("tok")}

CompleteContact ==
    Obj([first_name |-> S("Ada"), last_name |-> S("Lovelace"),
         email |-> S("ada@example.com"), address |-> S("12 St James Sq"),
         city |-> S("London"), state |-> S("LDN"),
         postal_code |-> S("SW1Y"), country |-> S("GB")])

\* Complete as well: the padding of a value does not make it blank.
OtherContact ==
    Obj([first_name |-> Str(<<" ", "Alan", " ">>), last_name |-> S("Turing"),
         email |-> S("alan@example.com"), address |-> S("1 King's Parade"),
         city |-> S("Cambridge"), state |-> S("CAM"),
         postal_code |-> S("CB2"), country |-> S("GB")])

\* city is whitespace only, state is left out, country is empty.
IncompleteContact ==
    Obj([first_name |-> S("Ada"), last_name |-> S("Lovelace"),
         email |-> S("ada@example.com"), address |-> S("12 St James Sq"),
         city |-> Str(<<" ", "\t">>), postal_code |-> S("SW1Y"),
         country |-> Str(<<>>)])

Contacts == {CompleteContact, OtherContact, IncompleteContact}
ContactArgs == Contacts \cup {Undefined}

Domain == S("example.com")
SearchId == S("s1")
DomainId == S("d1")
RecordId == S("r1")
Email == S("ada@example.com")
Query == S("example.com")
Nameservers == Arr(<<S("ns1.example.net"), S("ns2.example.net")>>)
PaymentSignature == S("sig")
PaymentMethods == {Undefined, S("lightning")}
PaymentUrl == S("https://pay.example.net/request")
ContextToken == S("ctx-1")
OfferIds == <<S("offer-1"), S("offer-2"), S("offer-3"), S("offer-4")>>

\* DNS record descriptors: every subset of the four fields supplied.
SuppliedRecord ==
    [type |-> S("A"), name |-> S("www"), value |-> S("1.2.3.4"), ttl |-> Num(60)]
DnsRecords == {Obj([k \in ks |-> SuppliedRecord[k]]) : ks \in SUBSET DOMAIN SuppliedRecord}

Statuses == {200, 402, 500}

OffersBody(n) ==
    Obj([payment_request_url |-> PaymentUrl,
         payment_context_token |-> ContextToken,
         offers |-> Arr([i \in 1..n |-> Obj([id |-> OfferIds[i]])])])

\* What the remote may answer, to any request.
Bodies ==
    {Null, EmptyObj, NotJson, CompleteContact, IncompleteContact,
     Obj([error |-> S("rejected")]),
     Obj([error |-> Null, data |-> S("fine")]),
     Obj([status |-> Num(418), message |-> S("teapot")]),
     Obj([error |-> S("rejected"), status |-> Num(418)])}
        \cup {OffersBody(n) : n \in 0..MaxOffers}

HttpResponses == {Response(s, b) : s \in Statuses, b \in Bodies}

\* The contacts requireCompleteContact is called on directly: every field is
\* left out, empty, whitespace only, or a padded non-blank string.
FieldStrings == {<<>>, <<" ", "\t">>, <<" ", "a", " ">>}
FieldSet == {requiredFields[i] : i \in 1..Len(requiredFields)}
\* Such a contact: the fields ks are present, with the values f.
ContactRecord(ks, f) == Obj([k \in ks |-> Str(f[k])])

\* ------------------------------------------------------------------------
\* Calls
\* ------------------------------------------------------------------------
\* The method called with arguments a, up to its first await.
Invoke(op, a) ==
    CASE op = "me" -> me(this_accessToken)
      [] op = "claimAccount" -> claimAccount(this_accessToken, a.email)
      [] op = "search" -> search(a.query)
      [] op = "domains" -> domains(this_accessToken)
      [] op = "updateNameservers" ->
            updateNameservers(this_accessToken, a.domainId, a.nameservers)
      [] op = "dnsRecords" -> dnsRecords(this_accessToken, a.domainId)
      [] op = "createDns" -> createDns(this_accessToken, a.domainId, a.record)
      [] op = "updateDns" ->
            updateDns(this_accessToken, a.domainId, a.recordId, a.record)
      [] op = "deleteDns" -> deleteDns(this_accessToken, a.domainId, a.recordId)
      [] op = "getContactInformation" -> getContactInformation(this_accessToken)
      [] op = "setContactInformation" ->
            setContactInformation(this_accessToken, a.contact)
      [] op = "getPurchaseOffers" ->
            getPurchaseOffers(this_accessToken, this_contact, a.domain, a.searchId,
                              a.contact)
      [] op = "getX402PurchaseOffers" ->
            getX402PurchaseOffers(this_accessToken, this_contact, a.domain,
                                  a.searchId, a.contact)
      [] op = "purchaseX402" ->
            purchaseX402(this_accessToken, this_contact, a.domain, a.searchId,
                         a.paymentSignature, a.contact)
      [] op = "purchaseDomain" -> purchaseDomain(this_accessToken)
      [] op = "getPaymentDetails" ->
            getPaymentDetails(a.paymentRequestUrl, a.offerId, a.paymentMethod,
                              a.paymentContextToken)

\* Where a method waits after its first request.
AwaitPc(op) ==
    CASE op = "purchaseDomain" -> "pd_contact"
      [] op = "getX402PurchaseOffers" -> "await_x402"
      [] OTHER -> "await"

Started(op, via, a, st) ==
    [op |-> op, via |-> via, args |-> a,
     pc |-> IF st.r.k = "fetch" THEN AwaitPc(op) ELSE "done",
     events |-> st.ev,
     reqs |-> IF st.r.k = "fetch" THEN <<st.r.req>> ELSE <<>>,
     resps |-> <<>>, contact |-> Undefined, offers |-> Undefined,
     out |-> IF st.r.k = "fetch" THEN Pending ELSE st.r]

\* The call of a method: it runs up to its first await.
Call(op, via, a) == Started(op, via, a, Invoke(op, a))

Me(c) ==
    /\ calls[c].pc = "idle"
    /\ calls' = [calls EXCEPT ![c] = Call("me", "direct", NoArgs)]
    /\ UNCHANGED <<this_accessToken, this_contact, rcArg, rcOut>>

ClaimAccount(c) ==
    /\ calls[c].pc = "idle"
    /\ calls' = [calls EXCEPT ![c] = Call("claimAccount", "direct", [email |-> Email])]
    /\ UNCHANGED <<this_accessToken, this_contact, rcArg, rcOut>>

Search(c) ==
    /\ calls[c].pc = "idle"
    /\ calls' = [calls EXCEPT ![c] = Call("search", "direct", [query |-> Query])]
    /\ UNCHANGED <<this_accessToken, this_contact, rcArg, rcOut>>

Domains(c) ==
    /\ calls[c].pc = "idle"
    /\ calls' = [calls EXCEPT ![c] = Call("domains", "direct", NoArgs)]
    /\ UNCHANGED <<this_accessToken, this_contact, rcArg, rcOut>>

UpdateNameservers(c) ==
    /\ calls[c].pc = "idle"
    /\ calls' = [calls EXCEPT ![c] =
                    Call("updateNameservers", "direct",
                         [domainId |-> DomainId, nameservers |-> Nameservers])]
    /\ UNCHANGED <<this_accessToken, this_contact, rcArg, rcOut>>

DnsRecordsOf(c) ==
    /\ calls[c].pc = "idle"
    /\ calls' = [calls EXCEPT ![c] =
                    Call("dnsRecords", "direct", [domainId |-> DomainId])]
    /\ UNCHANGED <<this_accessToken, this_contact, rcArg, rcOut>>

CreateDns(c) ==
    /\ calls[c].pc = "idle"
    /\ \E rec \in DnsRecords :
          calls' = [calls EXCEPT ![c] =
                       Call("createDns", "direct",
                            [domainId |-> DomainId, record |-> rec])]
    /\ UNCHANGED <<this_accessToken, this_contact, rcArg, rcOut>>

UpdateDns(c) ==
    /\ calls[c].pc = "idle"
    /\ \E rec \in DnsRecords :
          calls' = [calls EXCEPT ![c] =
                       Call("updateDns", "direct",
                            [domainId |-> DomainId, recordId |-> RecordId,
                             record |-> rec])]
    /\ UNCHANGED <<this_accessToken, this_contact, rcArg, rcOut>>

DeleteDns(c) ==
    /\ calls[c].pc = "idle"
    /\ calls' = [calls EXCEPT ![c] =
                    Call("deleteDns", "direct",
                         [domainId |-> DomainId, recordId |-> RecordId])]
    /\ UNCHANGED <<this_accessToken, this_contact, rcArg, rcOut>>

GetContactInformation(c) ==
    /\ calls[c].pc = "idle"
    /\ calls' = [calls EXCEPT ![c] = Call("getContactInformation", "direct", NoArgs)]
    /\ UNCHANGED <<this_accessToken, this_contact, rcArg, rcOut>>

\* setContactInformation also storing the contact in this.contact.
SetContactInformation_Caches(c) ==
    /\ calls[c].pc = "idle"
    /\ \E ct \in Contacts :
          /\ calls' = [calls EXCEPT ![c] =
                          Call("setContactInformation", "direct", [contact |-> ct])]
          /\ this_contact' = ct
    /\ UNCHANGED <<this_accessToken, rcArg, rcOut>>

SetContactInformation(c) ==
    /\ calls[c].pc = "idle"
    /\ \E ct \in Contacts :
          calls' = [calls EXCEPT ![c] =
                       Call("setContactInformation", "direct", [contact |-> ct])]
    /\ UNCHANGED <<this_accessToken, this_contact, rcArg, rcOut>>

GetPurchaseOffers(c) ==
    /\ calls[c].pc = "idle"
    /\ \E ct \in ContactArgs :
          calls' = [calls EXCEPT ![c] =
                       Call("getPurchaseOffers", "direct",
                            [domain |-> Domain, searchId |-> SearchId,
                             contact |-> ct])]
    /\ UNCHANGED <<this_accessToken, this_contact, rcArg, rcOut>>

GetX402PurchaseOffers(c) ==
    /\ calls[c].pc = "idle"
    /\ \E ct \in ContactArgs :
          calls' = [calls EXCEPT ![c] =
                       Call("getX402PurchaseOffers", "direct",
                            [domain |-> Domain, searchId |-> SearchId,
                             contact |-> ct])]
    /\ UNCHANGED <<this_accessToken, this_contact, rcArg, rcOut>>

PurchaseX402(c) ==
    /\ calls[c].pc = "idle"
    /\ \E ct \in ContactArgs :
          calls' = [calls EXCEPT ![c] =
                       Call("purchaseX402", "direct",
                            [domain |-> Domain, searchId |-> SearchId,
                             paymentSignature |-> PaymentSignature,
                             contact |-> ct])]
    /\ UNCHANGED <<this_accessToken, this_contact, rcArg, rcOut>>

\* paymentMethod: string = 'credit_card'
PurchaseDomain(c) ==
    /\ calls[c].pc = "idle"
    /\ \E pm \in PaymentMethods :
          calls' = [calls EXCEPT ![c] =
                       Call("purchaseDomain", "direct",
                            [searchId |-> SearchId, domain |-> Domain,
                             paymentMethod |-> Default(pm, S("credit_card"))])]
    /\ UNCHANGED <<this_accessToken, this_contact, rcArg, rcOut>>

GetPaymentDetails(c) ==
    /\ calls[c].pc = "idle"
    /\ calls' = [calls EXCEPT ![c] =
                    Call("getPaymentDetails", "direct",
                         [paymentRequestUrl |-> PaymentUrl, offerId |-> OfferIds[1],
                          paymentMethod |-> S("credit_card"),
                          paymentContextToken |-> ContextToken])]
    /\ UNCHANGED <<this_accessToken, this_contact, rcArg, rcOut>>

\* setContact is synchronous: it may run between any two steps of a call.
SetContact ==
    /\ \E ct \in Contacts : this_contact' = ct
    /\ UNCHANGED <<this_accessToken, calls, rcArg, rcOut>>

\* ------------------------------------------------------------------------
\* Responses
\* ------------------------------------------------------------------------
Awaiting == {"await", "await_x402", "pd_contact", "pd_offers", "pd_payment"}

Finish(call, resp, out) ==
    [call EXCEPT !.pc = "done", !.resps = Append(@, resp), !.out = out]

\* return this.handleResponse(r)
Respond(c) ==
    /\ calls[c].pc = "await"
    /\ \E resp \in HttpResponses :
          calls' = [calls EXCEPT ![c] = Finish(@, resp, handleResponse(resp))]
    /\ UNCHANGED <<this_accessToken, this_contact, rcArg, rcOut>>

\* const data = await r.json(); return { status: 402, ...data }
X402Result(resp) ==
    IF resp.body = NotJson THEN Throw(SyntaxError)
    ELSE Return(Obj(Merge([status |-> Num(402)], Spread(resp.body))))

X402Respond(c) ==
    /\ calls[c].pc = "await_x402"
    /\ \E resp \in HttpResponses :
          calls' = [calls EXCEPT ![c] = Finish(@, resp, X402Result(resp))]
    /\ UNCHANGED <<this_accessToken, this_contact, rcArg, rcOut>>

\* fetch rejects: the transport failed and there is no response.
FetchFails(c) ==
    /\ calls[c].pc \in Awaiting
    /\ calls' = [calls EXCEPT ![c] = [@ EXCEPT !.pc = "done",
                                               !.out = Throw(NetworkError)]]
    /\ UNCHANGED <<this_accessToken, this_contact, rcArg, rcOut>>

\* x.k: reading a property of undefined or null throws a TypeError.
Nullish(x) == x.t \in {"undefined", "null"}

\* x[0]
First(x) ==
    IF x.t \in {"array", "string"} /\ Len(x.v) >= 1
    THEN (IF x.t = "array" THEN x.v[1] ELSE Str(<<x.v[1]>>))
    ELSE Get(x, "0")

\* purchaseDomain catching a failed contact fetch and throwing its own error.
purchaseDomainContact_Wrap(accessToken, cached, a, hr) ==
    IF hr.k = "throw"
    THEN Step(<<>>, Throw(Obj([error |-> S("Could not fetch contact information")])))
    ELSE LET rc == requireCompleteContact(hr.v) IN
         IF rc.k = "throw" THEN Step(<<"validate">>, rc)
         ELSE LET g == getPurchaseOffers(accessToken, cached, a.domain, a.searchId,
                                         hr.v)
              IN Step(<<"validate">> \o g.ev, g.r)

\* purchaseDomain after the contact fetch has completed with hr: the
\* completeness check of the fetched contact, then the call of getPurchaseOffers.
purchaseDomainContact(accessToken, cached, a, hr) ==
    IF hr.k = "throw" THEN Step(<<>>, hr)
    ELSE LET rc == requireCompleteContact(hr.v) IN
         IF rc.k = "throw" THEN Step(<<"validate">>, rc)
         ELSE LET g == getPurchaseOffers(accessToken, cached, a.domain, a.searchId,
                                         hr.v)
              IN Step(<<"validate">> \o g.ev, g.r)

\* x[x.length - 1]
Last(x) ==
    IF x.t = "array" /\ Len(x.v) >= 1 THEN x.v[Len(x.v)] ELSE Undefined

\* purchaseDomain selecting the last offer of the list.
purchaseDomainOffers_LastOffer(a, hr) ==
    IF hr.k = "throw" THEN Step(<<>>, hr)
    ELSE LET offers == hr.v IN
         IF Nullish(offers) \/ Nullish(Get(offers, "offers"))
                \/ Nullish(Last(Get(offers, "offers")))
         THEN Step(<<>>, Throw(TypeError))
         ELSE getPaymentDetails(Get(offers, "payment_request_url"),
                                Get(Last(Get(offers, "offers")), "id"),
                                a.paymentMethod,
                                Get(offers, "payment_context_token"))

\* purchaseDomain after the offer request has completed with hr: the call of
\* getPaymentDetails with the first offer.
purchaseDomainOffers(a, hr) ==
    IF hr.k = "throw" THEN Step(<<>>, hr)
    ELSE LET offers == hr.v IN
         IF Nullish(offers) \/ Nullish(Get(offers, "offers"))
                \/ Nullish(First(Get(offers, "offers")))
         THEN Step(<<>>, Throw(TypeError))
         ELSE getPaymentDetails(Get(offers, "payment_request_url"),
                                Get(First(Get(offers, "offers")), "id"),
                                a.paymentMethod,
                                Get(offers, "payment_context_token"))

\* The call goes on with the step st, having received resp.
Continue(call, resp, st, pc) ==
    [call EXCEPT !.resps = Append(@, resp),
                 !.events = @ \o st.ev,
                 !.reqs = IF st.r.k = "fetch" THEN Append(@, st.r.req) ELSE @,
                 !.pc = IF st.r.k = "fetch" THEN pc ELSE "done",
                 !.out = IF st.r.k = "fetch" THEN Pending ELSE st.r]

PurchaseDomainContact(c) ==
    /\ calls[c].pc = "pd_contact"
    /\ \E resp \in HttpResponses :
          LET hr == handleResponse(resp)
              st == purchaseDomainContact(this_accessToken, this_contact,
                                          calls[c].args, hr)
          IN calls' = [calls EXCEPT ![c] =
                 [Continue(@, resp, st, "pd_offers") EXCEPT
                     !.contact = IF hr.k = "return" THEN hr.v ELSE @]]
    /\ UNCHANGED <<this_accessToken, this_contact, rcArg, rcOut>>

PurchaseDomainOffers(c) ==
    /\ calls[c].pc = "pd_offers"
    /\ \E resp \in HttpResponses :
          LET hr == handleResponse(resp)
              st == purchaseDomainOffers(calls[c].args, hr)
          IN calls' = [calls EXCEPT ![c] =
                 [Continue(@, resp, st, "pd_payment") EXCEPT
                     !.offers = IF hr.k = "return" THEN hr.v ELSE @]]
    /\ UNCHANGED <<this_accessToken, this_contact, rcArg, rcOut>>

\* return await this.getPaymentDetails(...)
PurchaseDomainPayment(c) ==
    /\ calls[c].pc = "pd_payment"
    /\ \E resp \in HttpResponses :
          calls' = [calls EXCEPT ![c] = Finish(@, resp, handleResponse(resp))]
    /\ UNCHANGED <<this_accessToken, this_contact, rcArg, rcOut>>

\* The caller has its result; its next call starts afresh.
Settle(c) ==
    /\ calls[c].pc = "done"
    /\ calls' = [calls EXCEPT ![c] = IdleCall]
    /\ UNCHANGED <<this_accessToken, this_contact, rcArg, rcOut>>

\* ------------------------------------------------------------------------
\* asTools
\* ------------------------------------------------------------------------
\* The mapping with the purchaseX402 entry forwarding to the offer request.
asTools_WrongForward ==
    [me |-> "me",
     setContactInformation |-> "setContactInformation",
     getContactInformation |-> "getContactInformation",
     searchDomains |-> "search",
     purchaseDomain |-> "purchaseDomain",
     listDomains |-> "domains",
     getDnsRecords |-> "dnsRecords",
     createDnsRecord |-> "createDns",
     updateDnsRecord |-> "updateDns",
     deleteDnsRecord |-> "deleteDns",
     claimAccount |-> "claimAccount",
     updateNameservers |-> "updateNameservers",
     getX402PurchaseOffers |-> "getX402PurchaseOffers",
     purchaseX402 |-> "getX402PurchaseOffers"]

\* The entries of the mapping, each with the method its execute calls.
asTools ==
    [me |-> "me",
     setContactInformation |-> "setContactInformation",
     getContactInformation |-> "getContactInformation",
     searchDomains |-> "search",
     purchaseDomain |-> "purchaseDomain",
     listDomains |-> "domains",
     getDnsRecords |-> "dnsRecords",
     createDnsRecord |-> "createDns",
     updateDnsRecord |-> "updateDns",
     deleteDnsRecord |-> "deleteDns",
     claimAccount |-> "claimAccount",
     updateNameservers |-> "updateNameservers",
     getX402PurchaseOffers |-> "getX402PurchaseOffers",
     purchaseX402 |-> "purchaseX402"]

\* { k1, k2, ...params }: the properties of x other than ks.
Rest(x, ks) == Obj([k \in (DOMAIN x.v) \ ks |-> x.v[k]])

\* The arguments execute passes on, from its single structured argument.
ToolArgs(tool, in) ==
    CASE tool \in {"me", "getContactInformation", "listDomains"} -> NoArgs
      [] tool = "setContactInformation" -> [contact |-> in]
      [] tool = "searchDomains" -> [query |-> Get(in, "query")]
      [] tool = "purchaseDomain" ->
            [searchId |-> Get(in, "searchId"), domain |-> Get(in, "domain"),
             paymentMethod |->
                 Default(Default(Get(in, "paymentMethod"), S("credit_card")),
                         S("credit_card"))]
      [] tool = "getDnsRecords" -> [domainId |-> Get(in, "domainId")]
      [] tool = "createDnsRecord" ->
            [domainId |-> Get(in, "domainId"), record |-> Rest(in, {"domainId"})]
      [] tool = "updateDnsRecord" ->
            [domainId |-> Get(in, "domainId"), recordId |-> Get(in, "recordId"),
             record |-> Rest(in, {"domainId", "recordId"})]
      [] tool = "deleteDnsRecord" ->
            [domainId |-> Get(in, "domainId"), recordId |-> Get(in, "recordId")]
      [] tool = "claimAccount" -> [email |-> Get(in, "email")]
      [] tool = "updateNameservers" ->
            [domainId |-> Get(in, "domainId"),
             nameservers |-> Get(in, "nameservers")]
      [] tool = "getX402PurchaseOffers" ->
            [domain |-> Get(in, "domain"), searchId |-> Get(in, "searchId"),
             contact |-> Undefined]
      [] tool = "purchaseX402" ->
            [domain |-> Get(in, "domain"), searchId |-> Get(in, "searchId"),
             paymentSignature |-> Get(in, "paymentSignature"),
             contact |-> Undefined]

\* The structured arguments an agent passes to each entry.
ToolInputs(tool) ==
    CASE tool \in {"me", "getContactInformation", "listDomains"} -> {EmptyObj}
      [] tool = "setContactInformation" -> Contacts
      [] tool = "searchDomains" -> {Obj([query |-> Query])}
      [] tool = "purchaseDomain" ->
            {Obj([searchId |-> SearchId, domain |-> Domain]),
             Obj([searchId |-> SearchId, domain |-> Domain,
                  paymentMethod |-> S("lightning")])}
      [] tool = "getDnsRecords" -> {Obj([domainId |-> DomainId])}
      [] tool = "createDnsRecord" ->
            {Obj(Merge([domainId |-> DomainId], rec.v)) : rec \in DnsRecords}
      [] tool = "updateDnsRecord" ->
            {Obj(Merge([domainId |-> DomainId, recordId |-> RecordId], rec.v)) :
                rec \in DnsRecords}
      [] tool = "deleteDnsRecord" ->
            {Obj([domainId |-> DomainId, recordId |-> RecordId])}
      [] tool = "claimAccount" -> {Obj([email |-> Email])}
      [] tool = "updateNameservers" ->
            {Obj([domainId |-> DomainId, nameservers |-> Nameservers])}
      [] tool = "getX402PurchaseOffers" ->
            {Obj([domain |-> Domain, searchId |-> SearchId])}
      [] tool = "purchaseX402" ->
            {Obj([domain |-> Domain, searchId |-> SearchId,
                  paymentSignature |-> PaymentSignature])}

\* The .default(...) values the parameter schemas of the two record tools
\* declare.
ToolSchemaDefaults ==
    [createDnsRecord |->
         [type |-> S("TXT"), name |-> S("test"), value |-> S("test-1"),
          ttl |-> Num(3600)],
     updateDnsRecord |->
         [type |-> S("TXT"), name |-> S("test-2"), value |-> S("test-2"),
          ttl |-> Num(3600)]]

\* tools[tool].execute(in)
ExecuteTool(c) ==
    /\ calls[c].pc = "idle"
    /\ \E tool \in DOMAIN asTools :
          \E in \in ToolInputs(tool) :
              calls' = [calls EXCEPT ![c] =
                           Call(asTools[tool], tool, ToolArgs(tool, in))]
    /\ UNCHANGED <<this_accessToken, this_contact, rcArg, rcOut>>

\* ------------------------------------------------------------------------
\* A direct call of requireCompleteContact
\* ------------------------------------------------------------------------
RequireCompleteContact ==
    /\ rcOut = Pending
    /\ rcOut' = requireCompleteContact(rcArg)
    /\ UNCHANGED <<this_accessToken, this_contact, calls, rcArg>>

\* ------------------------------------------------------------------------
\* Specifications
\* ------------------------------------------------------------------------
\* new Sherlock(accessToken): the credential is the argument, the cached
\* contact is unset.
Init ==
    /\ this_accessToken \in Tokens
    /\ this_contact = Undefined
    /\ calls = [c \in Callers |-> IdleCall]
    /\ rcArg = Undefined
    /\ rcOut = Return(Undefined)

Next ==
    \/ SetContact
    \/ \E c \in Callers :
          \/ Me(c)
          \/ ClaimAccount(c)
          \/ Search(c)
          \/ Domains(c)
          \/ UpdateNameservers(c)
          \/ DnsRecordsOf(c)
          \/ CreateDns(c)
          \/ UpdateDns(c)
          \/ DeleteDns(c)
          \/ GetContactInformation(c)
          \/ SetContactInformation(c)
          \/ GetPurchaseOffers(c)
          \/ GetX402PurchaseOffers(c)
          \/ PurchaseX402(c)
          \/ PurchaseDomain(c)
          \/ GetPaymentDetails(c)
          \/ ExecuteTool(c)
          \/ Respond(c)
          \/ X402Respond(c)
          \/ FetchFails(c)
          \/ PurchaseDomainContact(c)
          \/ PurchaseDomainOffers(c)
          \/ PurchaseDomainPayment(c)
          \/ Settle(c)

Spec == Init /\ [][Next]_vars

\* requireCompleteContact on its own, on every contact record.
InitContact ==
    /\ this_accessToken = Undefined
    /\ this_contact = Undefined
    /\ calls = [c \in Callers |-> IdleCall]
    /\ \/ rcArg \in {Undefined, Null}
       \/ \E ks \in SUBSET FieldSet :
             \E f \in [ks -> FieldStrings] : rcArg = ContactRecord(ks, f)
    /\ rcOut = Pending

NextContact == RequireCompleteContact

SpecContact == InitContact /\ [][NextContact]_vars

\* Two callers sharing one authenticated client, each running purchase
\* operations while setContact is called on the client.
RaceCallers == {"c1", "c2"}

\* What the remote answers in these runs: the stored contact, complete or not,
\* an offer list, a failure.
RaceResponses ==
    {Response(200, CompleteContact), Response(200, IncompleteContact),
     Response(200, OffersBody(1)), Response(500, Null)}

\* The response a step has consumed is one of RaceResponses.
RaceAnswer(c) == calls'[c].resps[Len(calls'[c].resps)] \in RaceResponses

InitRace ==
    /\ this_accessToken = S("tok")
    /\ this_contact = Undefined
    /\ calls = [c \in RaceCallers |-> IdleCall]
    /\ rcArg = Undefined
    /\ rcOut = Return(Undefined)

NextRace ==
    \/ SetContact
    \/ \E c \in RaceCallers :
          \/ GetPurchaseOffers(c)
          \/ GetX402PurchaseOffers(c)
          \/ PurchaseX402(c)
          \/ PurchaseDomain(c)
          \/ Respond(c) /\ RaceAnswer(c)
          \/ X402Respond(c) /\ RaceAnswer(c)
          \/ PurchaseDomainContact(c) /\ RaceAnswer(c)
          \/ PurchaseDomainOffers(c) /\ RaceAnswer(c)
          \/ PurchaseDomainPayment(c) /\ RaceAnswer(c)
          \/ FetchFails(c)
          \/ Settle(c)

SpecRace == InitRace /\ [][NextRace]_vars

\* ------------------------------------------------------------------------
\* Properties
\* ------------------------------------------------------------------------
AuthOps ==
    {"me", "claimAccount", "domains", "updateNameservers", "dnsRecords",
     "createDns", "updateDns", "deleteDns", "getContactInformation",
     "setContactInformation", "getPurchaseOffers", "getX402PurchaseOffers",
     "purchaseX402", "purchaseDomain"}

DirectPurchaseOps == {"getPurchaseOffers", "getX402PurchaseOffers", "purchaseX402"}
PurchaseFamily == DirectPurchaseOps \cup {"purchaseDomain"}

NoToken == ~Truthy(this_accessToken)

\* C1: on a client constructed without a token, or with an empty one, every
\* operation that requires authentication fails with 'Not authenticated' and
\* issues no request, whatever its arguments.
C1_UnauthenticatedFailsBeforeRequest ==
    \A c \in Callers :
        (NoToken /\ calls[c].op \in AuthOps) =>
            /\ calls[c].pc = "done"
            /\ calls[c].out = Throw(NotAuthenticated)
            /\ calls[c].reqs = <<>>
            /\ calls[c].resps = <<>>

\* An offer request with an incomplete contact, on a client whose token is the
\* empty string, has failed as unauthenticated.
C1_Witness ==
    \E c \in Callers :
        /\ this_accessToken = Str(<<>>)
        /\ calls[c].op = "getPurchaseOffers"
        /\ calls[c].args.contact = IncompleteContact
        /\ calls[c].out = Throw(NotAuthenticated)

\* The contact a purchaseDomain call has fetched, once the fetch has returned.
ContactFetched(k) ==
    /\ Len(k.resps) >= 1
    /\ handleResponse(k.resps[1]).k = "return"

\* The failure of the completeness check: an error object without a status.
ContactError(out) ==
    /\ out.k = "throw"
    /\ out.v.t = "object"
    /\ "status" \notin DOMAIN out.v.v

IsPrefix(s, t) == Len(s) <= Len(t) /\ s = SubSeq(t, 1, Len(s))

\* C2 as claimed: in every purchase-family operation, purchaseDomain included,
\* the completeness check precedes every request of the operation.
C2_CheckBeforeAnyRequest ==
    \A c \in Callers :
        /\ (calls[c].op \in PurchaseFamily /\ calls[c].events # <<>>) =>
              calls[c].events[1] = "validate"
        /\ (calls[c].op \in PurchaseFamily /\ ContactError(calls[c].out)) =>
              calls[c].reqs = <<>>

\* C2 amended: getPurchaseOffers, getX402PurchaseOffers and purchaseX402 run
\* the completeness check before any request, and fail with no request issued
\* when the effective contact is incomplete.  purchaseDomain first fetches the
\* stored contact (one request), then runs the check before the offer request
\* and the payment submission; when the fetched contact is incomplete it fails
\* with the contact fetch as its only request.
C2_CheckBeforePurchaseRequests ==
    [][\A c \in Callers :
          LET k == calls[c]
              n == calls'[c]
          IN
          /\ (n.op \in DirectPurchaseOps /\ n.events # <<>>) =>
                n.events[1] = "validate"
          /\ (k.pc = "idle" /\ n.op \in DirectPurchaseOps /\ ~NoToken) =>
                LET rc == requireCompleteContact(
                              EffectiveContact(n.args.contact, this_contact))
                IN /\ n.events # <<>>
                   /\ rc.k = "throw" => (n.reqs = <<>> /\ n.out = rc /\ n.pc = "done")
          /\ n.op = "purchaseDomain" =>
                /\ IsPrefix(n.events,
                            <<"request", "validate", "validate", "request", "request">>)
                /\ (ContactFetched(n)
                      /\ requireCompleteContact(n.resps[1].body).k = "throw") =>
                        /\ Len(n.reqs) = 1
                        /\ n.pc = "done"
                        /\ n.out = requireCompleteContact(n.resps[1].body)
      ]_vars

\* purchaseDomain has fetched an incomplete contact and failed on it, after
\* the one request of the fetch.
C2_Witness ==
    \E c \in Callers :
        /\ calls[c].op = "purchaseDomain"
        /\ ContactFetched(calls[c])
        /\ calls[c].resps[1].body = IncompleteContact
        /\ ContactError(calls[c].out)
        /\ calls[c].events = <<"request", "validate">>
        /\ Len(calls[c].reqs) = 1

\* A value is blank when it has no token other than whitespace.
Blank(s) == \A i \in 1..Len(s) : s[i] \in WhiteSpace

\* The fields of a contact record that are omitted, empty or whitespace only.
BlankFields(ct) ==
    {f \in FieldSet : f \notin DOMAIN ct.v \/ Blank(ct.v[f].v)}

\* The position of a field in the declared order.
FieldIndex(f) == CHOOSE i \in 1..Len(requiredFields) : requiredFields[i] = f

\* C3: on a contact record whose fields S are omitted, empty or whitespace
\* only, requireCompleteContact succeeds iff S is empty; otherwise it throws
\* with missingFields listing exactly S in the declared order, and a message
\* saying 'is required' for one field and 'are required' for several.
C3_MissingFieldsExact ==
    (rcOut # Pending /\ rcArg.t = "object") =>
        LET Missing == BlankFields(rcArg) IN
        IF Missing = {} THEN rcOut = Return(Undefined)
        ELSE /\ rcOut.k = "throw"
             /\ rcOut.v.t = "object"
             /\ DOMAIN rcOut.v.v = {"error", "missingFields"}
             /\ LET mf == rcOut.v.v.missingFields.v
                    msg == rcOut.v.v.error.v
                IN /\ Len(mf) = Cardinality(Missing)
                   /\ {mf[i].v[1] : i \in 1..Len(mf)} = Missing
                   /\ \A i, j \in 1..Len(mf) :
                         i < j => FieldIndex(mf[i].v[1]) < FieldIndex(mf[j].v[1])
                   /\ msg[Len(msg) - 1] =
                         (IF Cardinality(Missing) = 1 THEN "is" ELSE "are")
                   /\ msg[Len(msg)] = " required and cannot be empty"
                   /\ {msg[i] : i \in 2..(Len(msg) - 3)} \ {", "} = Missing

\* The check has rejected a contact whose city is whitespace only and whose
\* state is left out, naming the two in the declared order.
C3_Witness ==
    /\ rcArg.t = "object"
    /\ "city" \in DOMAIN rcArg.v
    /\ "state" \notin DOMAIN rcArg.v
    /\ BlankFields(rcArg) = {"city", "state"}
    /\ rcArg.v.city = Str(<<" ", "\t">>)
    /\ rcOut.k = "throw"
    /\ rcOut.v.v.missingFields = ToStrArr(<<"city", "state">>)

\* The calls whose completion is that of handleResponse on the last response:
\* every method but getX402PurchaseOffers, purchaseDomain at its last step.
Handled(k) ==
    /\ k.pc = "done"
    /\ k.op \notin {"none", "getX402PurchaseOffers"}
    /\ k.resps # <<>>
    /\ Len(k.resps) = Len(k.reqs)
    /\ k.op = "purchaseDomain" => Len(k.resps) = 3
    /\ k.resps[Len(k.resps)].body # NotJson

LastResp(k) == k.resps[Len(k.resps)]

BadStatus(r) == r.status < 200 \/ r.status > 299

HasErrorField(b) == b.t = "object" /\ "error" \in DOMAIN b.v

HasTruthyError(b) ==
    /\ HasErrorField(b)
    /\ b.v.error \notin {Undefined, Null, Str(<<>>), Num(0), Bool(FALSE)}

\* C4 as claimed: handleResponse fails iff the status is outside the success
\* range or the decoded body has an error field, of any value; otherwise it
\* returns the decoded body.
C4_FailsOnAnyErrorField ==
    \A c \in Callers :
        Handled(calls[c]) =>
            LET r == LastResp(calls[c]) IN
            IF BadStatus(r) \/ HasErrorField(r.body)
            THEN calls[c].out.k = "throw"
            ELSE calls[c].out = Return(r.body)

\* C4 amended: handleResponse fails iff the status is outside the success
\* range or the decoded body has an error field whose value is truthy;
\* otherwise (an absent, null, false, 0 or empty error included) it returns the
\* decoded body unmodified.
C4_FailsIffStatusOrTruthyError ==
    \A c \in Callers :
        Handled(calls[c]) =>
            LET r == LastResp(calls[c]) IN
            IF BadStatus(r) \/ HasTruthyError(r.body)
            THEN calls[c].out.k = "throw"
            ELSE calls[c].out = Return(r.body)

\* A 200 response whose body has a null error field was returned as it is.
C4_Witness ==
    \E c \in Callers :
        /\ Handled(calls[c])
        /\ LastResp(calls[c]) =
              Response(200, Obj([error |-> Null, data |-> S("fine")]))
        /\ calls[c].out = Return(LastResp(calls[c]).body)

\* C5: the error thrown on a remote rejection has the HTTP status of the
\* response as its status field, and every field of the decoded payload.
C5_ErrorCarriesHttpStatus ==
    \A c \in Callers :
        (Handled(calls[c]) /\ calls[c].out.k = "throw") =>
            LET r == LastResp(calls[c])
                e == calls[c].out.v
            IN /\ e.t = "object"
               /\ Get(e, "status") = Num(r.status)
               /\ DOMAIN Spread(r.body) \subseteq DOMAIN e.v

\* C6: getX402PurchaseOffers, with a credential and a complete contact, returns
\* for every JSON body and HTTP status an object whose status is 402, with the
\* fields of the body.
C6_StatusForced402 ==
    \A c \in Callers :
        LET k == calls[c] IN
        (k.op = "getX402PurchaseOffers" /\ k.resps # <<>>
            /\ LastResp(k).body # NotJson) =>
            /\ k.out.k = "return"
            /\ Get(k.out.v, "status") = Num(402)
            /\ DOMAIN Spread(LastResp(k).body) \subseteq DOMAIN k.out.v.v

ContactUrl == <<API_URL, "/api/v0/users/contact-information">>
OffersUrl == <<API_URL, "/api/v0/domains/purchase">>

\* C7: a purchaseDomain call that returns has issued exactly three requests:
\* the contact fetch, the offer request carrying the fetched contact with the
\* domain and the search id, and the payment submission to the
\* payment_request_url of the offers, carrying the id of the first offer, the
\* payment method and the payment_context_token; it returns the decoded body of
\* the third response.
C7_PurchaseDomainThreeRequests ==
    \A c \in Callers :
        LET k == calls[c] IN
        (k.op = "purchaseDomain" /\ k.out.k = "return") =>
            /\ Len(k.reqs) = 3
            /\ Len(k.resps) = 3
            /\ k.reqs[1].method = "GET"
            /\ k.reqs[1].url = ContactUrl
            /\ k.reqs[2].method = "POST"
            /\ k.reqs[2].url = OffersUrl
            /\ k.reqs[2].body =
                  Obj([domain |-> k.args.domain,
                       contact_information |-> k.resps[1].body,
                       search_id |-> k.args.searchId])
            /\ k.reqs[3].method = "POST"
            /\ Str(k.reqs[3].url) = k.resps[2].body.v.payment_request_url
            /\ k.reqs[3].body =
                  Obj([offer_id |-> k.resps[2].body.v.offers.v[1].v.id,
                       payment_method |-> k.args.paymentMethod,
                       payment_context_token |->
                           k.resps[2].body.v.payment_context_token])
            /\ k.out.v = k.resps[3].body

\* A purchase by lightning has returned the payment body, the offers having
\* listed two offers.
C7_Witness ==
    \E c \in Callers :
        LET k == calls[c] IN
        /\ k.op = "purchaseDomain"
        /\ k.out.k = "return"
        /\ k.args.paymentMethod = S("lightning")
        /\ Len(k.resps) = 3
        /\ k.resps[2].body = OffersBody(2)
        /\ k.reqs[3].body.v.offer_id = OfferIds[1]
        /\ k.out.v = Obj([status |-> Num(418), message |-> S("teapot")])

\* C8: in purchaseDomain a failed contact fetch or offer request ends the call
\* with the very error of the failed step, and no request follows it.
C8_IntermediateFailureSurfaces ==
    \A c \in Callers :
        LET k == calls[c] IN
        k.op = "purchaseDomain" =>
            /\ (Len(k.resps) >= 1 /\ handleResponse(k.resps[1]).k = "throw") =>
                  /\ k.pc = "done"
                  /\ k.out = handleResponse(k.resps[1])
                  /\ Len(k.reqs) = 1
            /\ (Len(k.resps) >= 2 /\ handleResponse(k.resps[2]).k = "throw") =>
                  /\ k.pc = "done"
                  /\ k.out = handleResponse(k.resps[2])
                  /\ Len(k.reqs) = 2
            /\ (k.pc = "done" /\ Len(k.resps) < Len(k.reqs)) =>
                  k.out = Throw(NetworkError)

\* The offer request of a purchase was answered 500 with an error payload: the
\* purchase has failed with that status and payload, after two requests.
C8_Witness ==
    \E c \in Callers :
        LET k == calls[c] IN
        /\ k.op = "purchaseDomain"
        /\ Len(k.resps) = 2
        /\ k.resps[2] = Response(500, Obj([error |-> S("rejected")]))
        /\ k.out = Throw(Obj([status |-> Num(500), error |-> S("rejected")]))
        /\ Len(k.reqs) = 2

\* C9 as claimed: whatever the operation, a response with a status outside the
\* success range makes it fail, and no request follows the response.
C9_BadStatusFailsEveryOperation ==
    \A c \in Callers :
        LET k == calls[c] IN
        (k.resps # <<>> /\ BadStatus(LastResp(k))) =>
            /\ k.pc = "done"
            /\ k.out.k = "throw"
            /\ Len(k.reqs) = Len(k.resps)

\* C9 amended: a response with a status outside the success range makes every
\* operation but getX402PurchaseOffers fail; getX402PurchaseOffers returns
\* normally on it when the body is JSON; no operation issues a request after it.
C9_BadStatusFailsButX402 ==
    \A c \in Callers :
        LET k == calls[c] IN
        (k.resps # <<>> /\ BadStatus(LastResp(k))) =>
            /\ k.pc = "done"
            /\ Len(k.reqs) = Len(k.resps)
            /\ k.op # "getX402PurchaseOffers" => k.out.k = "throw"
            /\ (k.op = "getX402PurchaseOffers" /\ LastResp(k).body # NotJson) =>
                  k.out.k = "return"

\* deleteDns was answered 500 with an empty object and has failed, and not
\* asked again.
C9_Witness ==
    \E c \in Callers :
        LET k == calls[c] IN
        /\ k.op = "deleteDns"
        /\ k.resps = <<Response(500, EmptyObj)>>
        /\ k.out = Throw(Obj([status |-> Num(500)]))
        /\ Len(k.reqs) = 1

\* The public methods of the client that call the remote.
PublicRemoteOps == AuthOps \cup {"search", "getPaymentDetails"}

\* The entry each method is exposed under.
ToolOf ==
    [me |-> "me", claimAccount |-> "claimAccount", search |-> "searchDomains",
     domains |-> "listDomains", updateNameservers |-> "updateNameservers",
     dnsRecords |-> "getDnsRecords", createDns |-> "createDnsRecord",
     updateDns |-> "updateDnsRecord", deleteDns |-> "deleteDnsRecord",
     getContactInformation |-> "getContactInformation",
     setContactInformation |-> "setContactInformation",
     getX402PurchaseOffers |-> "getX402PurchaseOffers",
     purchaseX402 |-> "purchaseX402", purchaseDomain |-> "purchaseDomain"]

\* Exactly one entry for each method of ops, each forwarding to its method.
ToolsExpose(ops) ==
    /\ {asTools[t] : t \in DOMAIN asTools} = ops
    /\ \A t, u \in DOMAIN asTools : asTools[t] = asTools[u] => t = u
    /\ \A c \in Callers :
          calls[c].via \in DOMAIN asTools =>
              /\ calls[c].op \in DOMAIN ToolOf
              /\ ToolOf[calls[c].op] = calls[c].via

\* C10 as claimed: asTools has exactly one entry for each public remote
\* operation but getPaymentDetails, each forwarding to its method.
C10_OneToolPerOperation == ToolsExpose(PublicRemoteOps \ {"getPaymentDetails"})

\* C10 amended: asTools has exactly one entry for each public remote operation
\* but getPurchaseOffers and getPaymentDetails (fourteen entries), each
\* forwarding to its method; the offer request is reached only through
\* purchaseDomain.
C10_OneToolPerExposedOperation ==
    ToolsExpose(PublicRemoteOps \ {"getPaymentDetails", "getPurchaseOffers"})

\* The purchaseX402 entry was executed and has sent the request of
\* purchaseX402, with the payment signature.
C10_Witness ==
    \E c \in Callers :
        /\ calls[c].via = "purchaseX402"
        /\ calls[c].op = "purchaseX402"
        /\ Len(calls[c].reqs) = 1
        /\ "PAYMENT-SIGNATURE" \in DOMAIN calls[c].reqs[1].headers

\* The contact argument of a call when one is supplied, the cached contact
\* otherwise.
ArgumentElseCached(a, cached) ==
    IF a.contact # Undefined THEN a.contact ELSE cached

\* C11: in getPurchaseOffers, getX402PurchaseOffers and purchaseX402 the
\* effective contact is the contact argument when one is supplied and the
\* cached contact otherwise; it is the effective contact that is validated (a
\* supplied incomplete argument fails even over a complete cache) and that is
\* sent as contact_information.
C11_ArgumentOverridesCache ==
    [][\A c \in Callers :
          LET k == calls[c]
              n == calls'[c]
          IN
          (k.pc = "idle" /\ n.op \in DirectPurchaseOps /\ ~NoToken) =>
              LET eff == ArgumentElseCached(n.args, this_contact)
                  rc == requireCompleteContact(eff)
              IN IF rc.k = "throw"
                 THEN n.out = rc /\ n.reqs = <<>>
                 ELSE /\ Len(n.reqs) = 1
                      /\ Get(n.reqs[1].body, "contact_information") = eff
      ]_vars

\* An offer request with an incomplete argument has failed on it, the cached
\* contact being complete.
C11_Witness ==
    \E c \in Callers :
        /\ this_contact = CompleteContact
        /\ calls[c].op = "getPurchaseOffers"
        /\ calls[c].args.contact = IncompleteContact
        /\ calls[c].out = requireCompleteContact(IncompleteContact)
        /\ calls[c].reqs = <<>>

DnsWriteOps == {"createDns", "updateDns"}
RecordFields == {"type", "name", "value", "ttl"}

\* The defaults the two methods are stated to use.
StatedDefaults(op) ==
    IF op = "createDns"
    THEN [type |-> S("TXT"), name |-> S("test"), value |-> S("test-1"),
          ttl |-> Num(3600)]
    ELSE [type |-> S("TXT"), name |-> S("test-2"), value |-> S("test-2"),
          ttl |-> Num(3600)]

\* The records of the body of the request of a createDns or updateDns call.
SentRecords(k) == Get(k.reqs[1].body, "records")

\* C12: createDns and updateDns send a body with a single record that has the
\* supplied value for every supplied field of {type, name, value, ttl} and the
\* default for every other: 'TXT' and 3600 for both, 'test' and 'test-1' for
\* createDns, 'test-2' and 'test-2' for updateDns, whose record also carries
\* the record id; the schemas of the createDnsRecord and updateDnsRecord tools
\* declare the same defaults.
C12_DnsDefaults ==
    \A c \in Callers :
        LET k == calls[c] IN
        (k.op \in DnsWriteOps /\ k.reqs # <<>>) =>
            /\ DOMAIN k.reqs[1].body.v = {"records"}
            /\ SentRecords(k).t = "array"
            /\ Len(SentRecords(k).v) = 1
            /\ LET sent == SentRecords(k).v[1]
                   given == k.args.record
               IN /\ sent.t = "object"
                  /\ DOMAIN sent.v =
                         RecordFields \cup
                             (IF k.op = "updateDns" THEN {"id"} ELSE {})
                  /\ \A f \in RecordFields :
                        sent.v[f] = IF f \in DOMAIN given.v THEN given.v[f]
                                    ELSE StatedDefaults(k.op)[f]
                  /\ k.op = "updateDns" => sent.v["id"] = k.args.recordId
                  /\ k.via # "direct" =>
                        \A f \in RecordFields \ DOMAIN given.v :
                            sent.v[f] = ToolSchemaDefaults[k.via][f]

\* updateDns went out through its tool with the value alone supplied: the
\* record sent has that value, the record id and the three defaults.
C12_Witness ==
    \E c \in Callers :
        /\ calls[c].op = "updateDns"
        /\ calls[c].via = "updateDnsRecord"
        /\ DOMAIN calls[c].args.record.v = {"value"}
        /\ calls[c].reqs # <<>>
        /\ SentRecords(calls[c]).v[1] =
               Obj([id |-> RecordId, type |-> S("TXT"), name |-> S("test-2"),
                    value |-> SuppliedRecord.value, ttl |-> Num(3600)])

\* The place, among the requests of a call, of its offer or purchase request:
\* purchaseDomain fetches the contact first.
PurchaseRequestAt(op) == IF op = "purchaseDomain" THEN 2 ELSE 1

HasPurchaseRequest(k) ==
    k.op \in PurchaseFamily /\ Len(k.reqs) >= PurchaseRequestAt(k.op)

SentContact(k) ==
    Get(k.reqs[PurchaseRequestAt(k.op)].body, "contact_information")

Complete(contact) == requireCompleteContact(contact).k = "return"

\* C13: in every execution, setContact being called on the client while
\* purchase operations of several callers are in flight, every offer or
\* purchase request of getPurchaseOffers, getX402PurchaseOffers, purchaseX402
\* and purchaseDomain carries as contact_information a contact that passed the
\* completeness check; the contact checked is the one sent (the effective
\* contact at the call, the fetched contact for purchaseDomain), and a
\* setContact changes no request, issued or to come, of a call in flight.
C13_ValidatedContactIsSent ==
    [][/\ \A c \in DOMAIN calls :
             LET k == calls[c]
                 n == calls'[c]
             IN
             /\ HasPurchaseRequest(n) =>
                   /\ Complete(SentContact(n))
                   /\ n.op = "purchaseDomain" => SentContact(n) = n.contact
                   /\ (n.op \in DirectPurchaseOps /\ k.pc = "idle") =>
                         SentContact(n) =
                             ArgumentElseCached(n.args, this_contact)
             /\ (k.pc \in Awaiting /\ n.pc # "idle") =>
                   /\ IsPrefix(k.reqs, n.reqs)
                   /\ Len(k.reqs) >= PurchaseRequestAt(k.op) =>
                         n.reqs = k.reqs \/ k.op = "purchaseDomain"
       /\ this_contact' # this_contact => calls' = calls
      ]_vars

\* The cached contact has been replaced by an incomplete one while the offer
\* request of one caller, checked against the cache before, and the offer
\* request of a purchaseDomain of the other are in flight with complete
\* contacts.
C13_Witness ==
    /\ DOMAIN calls = RaceCallers
    /\ this_contact = IncompleteContact
    /\ calls["c1"].op = "getPurchaseOffers"
    /\ calls["c1"].args.contact = Undefined
    /\ calls["c1"].pc = "await"
    /\ SentContact(calls["c1"]) = CompleteContact
    /\ calls["c2"].op = "purchaseDomain"
    /\ calls["c2"].pc = "pd_offers"
    /\ SentContact(calls["c2"]) = CompleteContact

\* C14: the credential is fixed at construction and no operation changes it;
\* the cached contact is changed by setContact alone, to the contact it is
\* given. Every step of every other operation, succeeding or failing, leaves
\* both unchanged, setContactInformation and purchaseDomain included, so that
\* getPurchaseOffers called without a contact resolves to the contact
\* setContact last stored.
C14_OnlyWritersChangeFields ==
    [][/\ this_accessToken' = this_accessToken
       /\ calls' # calls => this_contact' = this_contact
       /\ this_contact' # this_contact => this_contact' \in Contacts
       /\ \A c \in Callers :
             LET k == calls[c]
                 n == calls'[c]
             IN
             (/\ k.pc = "idle"
              /\ n.op = "getPurchaseOffers"
              /\ n.args.contact = Undefined
              /\ ~NoToken) =>
                 IF Complete(this_contact)
                 THEN HasPurchaseRequest(n) /\ SentContact(n) = this_contact
                 ELSE n.out = requireCompleteContact(this_contact)
      ]_vars

\* setContactInformation has stored a complete contact remotely and returned,
\* the cached contact being unset still.
C14_Witness ==
    \E c \in Callers :
        /\ calls[c].op = "setContactInformation"
        /\ calls[c].args.contact = CompleteContact
        /\ calls[c].pc = "done"
        /\ calls[c].out.k = "return"
        /\ this_contact = Undefined

====
